---- MODULE Spec2Model ----
(***************************************************************************)
(* Model of the OTIM federated-access demo: the typed-data hashing and     *)
(* signature-encoding pipeline of src/src/index.ts and src/src/clients.    *)
(*                                                                         *)
(* Strings are sequences of characters.  A character is a number: 0..15 is *)
(* the hex digit of that value (lowercase), 16 is the letter "x" and 17 is *)
(* a character that is no hex digit (such as "g").  "0x" is <<0, 16>>.     *)
(* A BigInt is the sequence of its hex digits without leading zeros, so    *)
(* two BigInts are equal exactly when their sequences are.                 *)
(***************************************************************************)
EXTENDS Integers, Sequences, FiniteSets, TLC

VARIABLES
    \* decoder / typed-data digest (SpecDecode)
    f1, f2, ins1, ins2, dcase, res, dpc,
    \* signing hash list and re-assembly (SpecAssemble)
    aVariant, aAuth, aResp, aOut, aSigs, aFinal, apc,
    \* signature format conversion (SpecSig)
    sRaw, sDelegate, sFlat, sCompact, sAuth, spc,
    \* one run of main (Spec)
    runVariant, pc, response, mainDelegateAddress, mainAuthHash, lookups, hashList,
    signWith, mainSignatures, calls, outcomes, exitCode

decVars == <<f1, f2, ins1, ins2, dcase, res, dpc>>
asmVars == <<aVariant, aAuth, aResp, aOut, aSigs, aFinal, apc>>
sigVars == <<sRaw, sDelegate, sFlat, sCompact, sAuth, spc>>
runVars == <<runVariant, pc, response, mainDelegateAddress, mainAuthHash, lookups,
             hashList, signWith, mainSignatures, calls, outcomes, exitCode>>
vars == <<decVars, asmVars, sigVars, runVars>>
notDecode == <<asmVars, sigVars, runVars>>
notAssemble == <<decVars, sigVars, runVars>>
notSig == <<decVars, asmVars, runVars>>
notRun == <<decVars, asmVars, sigVars>>

\* A specification leaves the variables of the others at rest.
DecodeIdle ==
    /\ f1 = <<>> /\ f2 = <<>> /\ ins1 = <<>> /\ ins2 = <<>>
    /\ dcase = "idle" /\ res = <<>> /\ dpc = "idle"

AssembleIdle ==
    /\ aVariant = "idle" /\ aAuth = <<>> /\ aResp = <<>> /\ aOut = <<>>
    /\ aSigs = <<>> /\ aFinal = <<>> /\ apc = "idle"

SigIdle ==
    /\ sRaw = <<>> /\ sDelegate = <<>> /\ sFlat = <<>> /\ sCompact = <<>>
    /\ sAuth = <<>> /\ spc = "idle"

RunIdle ==
    /\ runVariant = "idle" /\ pc = "idle" /\ response = <<>>
    /\ mainDelegateAddress = <<>> /\ mainAuthHash = <<>> /\ lookups = <<>>
    /\ hashList = <<>> /\ signWith = <<>> /\ mainSignatures = <<>>
    /\ calls = <<>> /\ outcomes = <<>> /\ exitCode = "idle"

----------------------------------------------------------------------------
(* Strings *)

Min(a, b) == IF a < b THEN a ELSE b

Prefix0x == <<0, 16>>

IsHexDigit(c) == c \in 0..15

IsHexString(s) == \A i \in 1..Len(s) : IsHexDigit(s[i])

\* String.prototype.slice(a, b) for 0 <= a, 0 <= b: both ends are clamped to
\* the length, an empty range gives the empty string.
Slice(s, a, b) == SubSeq(s, Min(a, Len(s)) + 1, Min(b, Len(s)))

\* String.prototype.slice(a)
SliceFrom(s, a) == SubSeq(s, Min(a, Len(s)) + 1, Len(s))

RECURSIVE StripZeros(_)
StripZeros(s) ==
    IF s = <<>> THEN <<>>
    ELSE IF s[1] = 0 THEN StripZeros(Tail(s)) ELSE s

\* BigInt('0x' + s): a SyntaxError when s is empty or holds a character that
\* is no hex digit, the value otherwise.
BigIntHex(s) ==
    IF s = <<>> \/ ~IsHexString(s)
    THEN [ok |-> FALSE, val |-> <<>>]
    ELSE [ok |-> TRUE, val |-> StripZeros(s)]

RECURSIVE DecValue(_)
DecValue(s) == IF s = <<>> THEN 0 ELSE 10 * DecValue(SubSeq(s, 1, Len(s) - 1)) + s[Len(s)]

RECURSIVE HexDigitsOf(_)
HexDigitsOf(n) == IF n = 0 THEN <<>> ELSE Append(HexDigitsOf(n \div 16), n % 16)

RECURSIVE BinValue(_)
BinValue(s) == IF s = <<>> THEN 0 ELSE 2 * BinValue(SubSeq(s, 1, Len(s) - 1)) + s[Len(s)]

\* "0b": the marker of a binary literal ("b" is the character 11).
Prefix0b == <<0, 11>>

\* BigInt('0b' + s): a SyntaxError when s is empty or holds a character other
\* than 0 and 1, the value otherwise.
BigIntBin(s) ==
    IF s = <<>> \/ \E i \in 1..Len(s) : s[i] \notin {0, 1}
    THEN [ok |-> FALSE, val |-> <<>>]
    ELSE [ok |-> TRUE, val |-> HexDigitsOf(BinValue(s))]

\* BigInt(str): a 0x-prefixed string is read as hex, a 0b-prefixed string as
\* binary, any other string as decimal digits (the empty string is 0n);
\* anything else is a SyntaxError.
BigIntStr(str) ==
    IF Len(str) >= 2 /\ SubSeq(str, 1, 2) = Prefix0x
    THEN BigIntHex(SliceFrom(str, 2))
    ELSE IF Len(str) >= 2 /\ SubSeq(str, 1, 2) = Prefix0b
    THEN BigIntBin(SliceFrom(str, 2))
    ELSE IF \A i \in 1..Len(str) : str[i] \in 0..9
         THEN [ok |-> TRUE, val |-> HexDigitsOf(DecValue(str))]
         ELSE [ok |-> FALSE, val |-> <<>>]

\* viem's isAddress: "0x" and forty hex digits.
IsAddress(a) ==
    /\ Len(a) = 42
    /\ SubSeq(a, 1, 2) = Prefix0x
    /\ IsHexString(SliceFrom(a, 2))

----------------------------------------------------------------------------
(* Typed-data digest builders *)

NoDigest == <<>>

Thrown == [ok |-> FALSE, digest |-> NoDigest]

\* A BigInt in the range of uint256: at most 64 hex digits.
IsUint256(v) == Len(v) <= 64

\* viem hashTypedData({domain, types, primaryType: "Instruction", message}).
\* The types are the fixed schema Instruction -> SweepERC20 -> Fee; the hash
\* is treated as injective, so the digest is the pair (domain, message) it is
\* computed from.  viem rejects a value of type address that is no address
\* and a value of type uint256 out of range; a domain whose verifyingContract
\* is the empty string has no such field, and nothing is checked for it.
hashTypedData(domain, message) ==
    IF /\ domain.verifyingContract = <<>> \/ IsAddress(domain.verifyingContract)
       /\ IsUint256(message.salt)
       /\ IsUint256(message.maxExecutions)
       /\ IsAddress(message.action)
       /\ IsAddress(message.sweepERC20.token)
       /\ IsAddress(message.sweepERC20.target)
       /\ IsUint256(message.sweepERC20.threshold)
       /\ IsUint256(message.sweepERC20.endBalance)
       /\ IsAddress(message.sweepERC20.fee.token)
       /\ IsUint256(message.sweepERC20.fee.maxBaseFeePerGas)
       /\ IsUint256(message.sweepERC20.fee.maxPriorityFeePerGas)
       /\ IsUint256(message.sweepERC20.fee.executionFee)
    THEN [ok |-> TRUE, digest |-> <<domain, message>>]
    ELSE Thrown

OtimDomain(chainId, delegateAddress) ==
    [ chainId |-> chainId,
      name |-> "OtimDelegate",
      salt |-> "keccak256(ON_TIME_INSTRUCTED_MONEY)",
      verifyingContract |-> delegateAddress,
      version |-> "1" ]

InstructionMessage(salt, maxExecutions, action, d) ==
    [ salt |-> salt,
      maxExecutions |-> maxExecutions,
      action |-> action,
      sweepERC20 |->
        [ token |-> d.token,
          target |-> d.target,
          threshold |-> d.threshold,
          endBalance |-> d.endBalance,
          fee |-> [ token |-> d.feeToken,
                    maxBaseFeePerGas |-> d.maxBaseFeePerGas,
                    maxPriorityFeePerGas |-> d.maxPriorityFeePerGas,
                    executionFee |-> d.executionFee ] ] ]

\* clients/OtimApiClient.ts, hashCompletionInstruction: the slices taken from
\* the arguments string after its first two characters are dropped.
DecodeArgs(arguments) ==
    LET args == SliceFrom(arguments, 2)
        threshold == BigIntHex(Slice(args, 104, 136))
        endBalance == BigIntHex(Slice(args, 136, 168))
        maxBaseFeePerGas == BigIntHex(Slice(args, 208, 240))
        maxPriorityFeePerGas == BigIntHex(Slice(args, 240, 272))
        executionFee == BigIntHex(Slice(args, 272, 304))
    IN  [ ok |-> /\ threshold.ok /\ endBalance.ok /\ maxBaseFeePerGas.ok
                 /\ maxPriorityFeePerGas.ok /\ executionFee.ok,
          token |-> Prefix0x \o Slice(args, 24, 64),
          target |-> Prefix0x \o Slice(args, 64, 104),
          threshold |-> threshold.val,
          endBalance |-> endBalance.val,
          feeToken |-> Prefix0x \o Slice(args, 168, 208),
          maxBaseFeePerGas |-> maxBaseFeePerGas.val,
          maxPriorityFeePerGas |-> maxPriorityFeePerGas.val,
          executionFee |-> executionFee.val ]

hashCompletionInstruction(instruction, delegateAddress) ==
    LET d == DecodeArgs(instruction.arguments)
        salt == BigIntStr(instruction.salt)
        maxExecutions == BigIntStr(instruction.maxExecutions)
    IN  IF d.ok /\ salt.ok /\ maxExecutions.ok
        THEN hashTypedData(OtimDomain(instruction.chainId, delegateAddress),
                           InstructionMessage(salt.val, maxExecutions.val,
                                              instruction.action, d))
        ELSE Thrown

\* index.ts, prepareEIP712Hash: the slices are taken from the arguments string
\* with its 0x marker still in place; the fee is not read from the arguments.
DecodeArgsIndex(argsHex) ==
    LET threshold == BigIntHex(Slice(argsHex, 130, 194))
        endBalance == BigIntHex(Slice(argsHex, 194, 258))
        token == Prefix0x \o Slice(argsHex, 26, 66)
    IN  [ ok |-> threshold.ok /\ endBalance.ok,
          token |-> token,
          target |-> Prefix0x \o Slice(argsHex, 90, 130),
          threshold |-> threshold.val,
          endBalance |-> endBalance.val,
          feeToken |-> token,
          maxBaseFeePerGas |-> <<>>,
          maxPriorityFeePerGas |-> <<>>,
          executionFee |-> <<>> ]

prepareEIP712Hash(chainId, delegateAddress, instructionData) ==
    LET d == DecodeArgsIndex(instructionData.arguments)
        salt == BigIntStr(instructionData.salt)
        maxExecutions == BigIntStr(instructionData.maxExecutions)
    IN  IF d.ok /\ salt.ok /\ maxExecutions.ok
        THEN hashTypedData(OtimDomain(chainId, delegateAddress),
                           InstructionMessage(salt.val, maxExecutions.val,
                                              instructionData.action, d))
        ELSE Thrown

----------------------------------------------------------------------------
(* Instructions as the payments API builds them *)

PadLeft(s, n) == [i \in 1..n |-> IF i <= n - Len(s) THEN 0 ELSE s[i - (n - Len(s))]]

\* The arguments layout: eight 32-byte words after the 0x marker, an address
\* in the low 20 bytes of its word, an integer big-endian over the whole word.
AbiEncode(f) ==
    Prefix0x
        \o PadLeft(SliceFrom(f.token, 2), 64)
        \o PadLeft(SliceFrom(f.target, 2), 64)
        \o PadLeft(f.threshold, 64)
        \o PadLeft(f.endBalance, 64)
        \o PadLeft(SliceFrom(f.feeToken, 2), 64)
        \o PadLeft(f.maxBaseFeePerGas, 64)
        \o PadLeft(f.maxPriorityFeePerGas, 64)
        \o PadLeft(f.executionFee, 64)

\* The decoder the layout calls for: field k from word k only.
AbiWord(arguments, k) == Slice(SliceFrom(arguments, 2), 64 * k, 64 * k + 64)

BuildInstruction(f) ==
    [ chainId |-> f.chainId,
      salt |-> Prefix0x \o f.salt,
      maxExecutions |-> Prefix0x \o f.maxExecutions,
      action |-> f.action,
      arguments |-> AbiEncode(f) ]

AddrPattern(k) == Prefix0x \o [i \in 1..40 |-> (i + k) % 16]
UintPattern(k) == [i \in 1..64 |-> (i + k) % 16]

Addrs == {AddrPattern(1), AddrPattern(7)}
Uints == {<<1>>, UintPattern(3)}
Salts == {<<1>>, <<2, 10>>}
DelegateAddrs == {AddrPattern(4), AddrPattern(9)}

ArgFields == {"token", "target", "threshold", "endBalance", "feeToken",
              "maxBaseFeePerGas", "maxPriorityFeePerGas", "executionFee"}
AddrFields == {"token", "target", "feeToken", "action"}
InstrFields == ArgFields \cup {"salt", "maxExecutions", "action"}

FieldValues(k) ==
    IF k \in AddrFields THEN Addrs
    ELSE IF k \in {"salt", "maxExecutions"} THEN Salts
    ELSE Uints

FieldRecs ==
    [ token : Addrs, target : Addrs, threshold : Uints, endBalance : Uints,
      feeToken : Addrs, maxBaseFeePerGas : Uints, maxPriorityFeePerGas : Uints,
      executionFee : Uints,
      salt : {<<1>>}, maxExecutions : {<<1>>}, action : {AddrPattern(1)},
      chainId : {8453}, delegate : {AddrPattern(4)} ]

\* Malformed arguments: cut short, extended by whole bytes, or with one
\* character that is no hex digit.
MaxExtraBytes == 2
TruncatedLens == {0, 2, 130, 258, 306, 512}
NonHexAt == {30, 110, 200, 330, 514}

Truncate(arguments, n) == SubSeq(arguments, 1, n)
Extend(arguments, k) == arguments \o [i \in 1..(2 * k) |-> (i + 4) % 16]
PutNonHex(arguments, p) == [arguments EXCEPT ![p] = 17]

WellFormedArgs(arguments) ==
    /\ Len(arguments) = 514
    /\ SubSeq(arguments, 1, 2) = Prefix0x
    /\ IsHexString(SliceFrom(arguments, 2))

----------------------------------------------------------------------------
(* SpecDecode: the digest builders applied to instructions *)

NoResult == [v1a |-> Thrown, v1b |-> Thrown, v2a |-> Thrown, v2b |-> Thrown]

DecodeInit ==
    /\ f1 \in FieldRecs
    /\ f2 = f1
    /\ ins1 = BuildInstruction(f1)
    /\ ins2 = ins1
    /\ dcase = "same"
    /\ res = NoResult
    /\ dpc = "ready"
    /\ AssembleIdle /\ SigIdle /\ RunIdle

\* A second instruction that differs from the first in exactly one field.
ChangeField(k, v) ==
    /\ dpc = "ready" /\ dcase = "same"
    /\ v # f1[k]
    /\ f2' = [f1 EXCEPT ![k] = v]
    /\ ins2' = BuildInstruction(f2')
    /\ dcase' = "changed"
    /\ UNCHANGED <<f1, ins1, res, dpc, notDecode>>

Malform(args) ==
    /\ dpc = "ready" /\ dcase = "same"
    /\ ins1' = [ins1 EXCEPT !.arguments = args]
    /\ ins2' = ins1'
    /\ dcase' = "malformed"
    /\ UNCHANGED <<f1, f2, res, dpc, notDecode>>

MalformTruncate == \E n \in TruncatedLens : Malform(Truncate(ins1.arguments, n))
MalformExtend == \E k \in 1..MaxExtraBytes : Malform(Extend(ins1.arguments, k))
MalformNonHex == \E p \in NonHexAt : Malform(PutNonHex(ins1.arguments, p))

HashBoth ==
    /\ dpc = "ready"
    /\ res' = [ v1a |-> hashCompletionInstruction(ins1, f1.delegate),
                v1b |-> hashCompletionInstruction(ins2, f2.delegate),
                v2a |-> prepareEIP712Hash(f1.chainId, f1.delegate, ins1),
                v2b |-> prepareEIP712Hash(f2.chainId, f2.delegate, ins2) ]
    /\ dpc' = "hashed"
    /\ UNCHANGED <<f1, f2, ins1, ins2, dcase, notDecode>>

DecodeNext ==
    \/ \E k \in InstrFields : \E v \in FieldValues(k) : ChangeField(k, v)
    \/ MalformTruncate
    \/ MalformExtend
    \/ MalformNonHex
    \/ HashBoth

SpecDecode == DecodeInit /\ [][DecodeNext]_vars

----------------------------------------------------------------------------
(* Claims about the decoder and the typed-data digest *)

\* The eight values of the arguments that a digest's message carries.
MessageArgs(digest) ==
    LET m == digest[2].sweepERC20
    IN  [ token |-> m.token, target |-> m.target, threshold |-> m.threshold,
          endBalance |-> m.endBalance, feeToken |-> m.fee.token,
          maxBaseFeePerGas |-> m.fee.maxBaseFeePerGas,
          maxPriorityFeePerGas |-> m.fee.maxPriorityFeePerGas,
          executionFee |-> m.fee.executionFee ]

\* Field k read from word k only.
WordDecode(arguments) ==
    [ token |-> Prefix0x \o Slice(AbiWord(arguments, 0), 24, 64),
      target |-> Prefix0x \o Slice(AbiWord(arguments, 1), 24, 64),
      threshold |-> StripZeros(AbiWord(arguments, 2)),
      endBalance |-> StripZeros(AbiWord(arguments, 3)),
      feeToken |-> Prefix0x \o Slice(AbiWord(arguments, 4), 24, 64),
      maxBaseFeePerGas |-> StripZeros(AbiWord(arguments, 5)),
      maxPriorityFeePerGas |-> StripZeros(AbiWord(arguments, 6)),
      executionFee |-> StripZeros(AbiWord(arguments, 7)) ]

ArgsOf(f) == [k \in ArgFields |-> f[k]]

DecodesByWord(r, f, arguments) ==
    /\ r.ok
    /\ MessageArgs(r.digest) = WordDecode(arguments)
    /\ MessageArgs(r.digest) = ArgsOf(f)

\* C2: for every valid arguments blob the decoder returns the eight fields in
\* order, field k read from word k only (addresses from the low 20 bytes,
\* integers as the whole big-endian word), so encoding eight values and
\* decoding the result gives the same eight values back.
C2_DecodeRoundTrip ==
    (dpc = "hashed" /\ WellFormedArgs(ins1.arguments)) =>
        /\ DecodesByWord(res.v1a, f1, ins1.arguments)
        /\ DecodesByWord(res.v2a, f1, ins1.arguments)

\* C3: with the hash injective and the delegate address fixed, two
\* instructions that differ in exactly one field (salt, maxExecutions, action
\* or one of the eight argument fields) have different typed-data digests.
C3_OneFieldChangesDigest ==
    (dpc = "hashed" /\ dcase = "changed") =>
        /\ res.v1a.ok /\ res.v1b.ok /\ res.v1a.digest # res.v1b.digest
        /\ res.v2a.ok /\ res.v2b.ok /\ res.v2a.digest # res.v2b.digest

\* C8: an arguments blob that is not exactly 256 bytes after the 0x marker,
\* or that holds a character that is no hex digit, fails to decode and gives
\* no digest.
C8_MalformedArgsFail ==
    (dpc = "hashed" /\ ~WellFormedArgs(ins1.arguments)) =>
        /\ ~res.v1a.ok /\ res.v1a.digest = NoDigest
        /\ ~res.v2a.ok /\ res.v2a.digest = NoDigest

\* C16: prepareEIP712Hash (index.ts) and hashCompletionInstruction
\* (clients/OtimApiClient.ts) build the same domain and the same message, hence
\* the same digest, for every instruction with valid arguments.
C16_BuildersEquivalent ==
    (dpc = "hashed" /\ WellFormedArgs(ins1.arguments)) =>
        /\ res.v1a.ok /\ res.v2a.ok
        /\ res.v1a.digest[1] = res.v2a.digest[1]
        /\ res.v1a.digest[2] = res.v2a.digest[2]

----------------------------------------------------------------------------
(* Signature format conversion *)

RECURSIVE HexValue(_)
HexValue(s) == IF s = <<>> THEN 0 ELSE 16 * HexValue(SubSeq(s, 1, Len(s) - 1)) + s[Len(s)]

\* A normalization by parity alone.
NormalizeVParityOnly(v) == v % 2

\* A normalization whose fallback is the parity itself, odd to 1.
NormalizeVOddIsOne(v) ==
    IF v = 0 \/ v = 27 THEN 0
    ELSE IF v = 1 \/ v = 28 THEN 1
    ELSE v % 2

\* Recovery-id normalization: 0/1 pass through, 27/28 map to 0/1, any other
\* value maps by parity, even to 1 and odd to 0.
NormalizeV(v) ==
    IF v = 0 \/ v = 27 THEN 0
    ELSE IF v = 1 \/ v = 28 THEN 1
    ELSE IF v % 2 = 0 THEN 1 ELSE 0

HasPrefix0x(str) == Len(str) >= 2 /\ SubSeq(str, 1, 2) = Prefix0x

\* The hex digits of a string, without its 0x marker when it has one.
HexBody(str) == IF HasPrefix0x(str) THEN SliceFrom(str, 2) ELSE str

\* RawSignature (r, s, v) to the compact form (yParity, r, s).
ToCompact(sig) ==
    [r |-> sig.r, s |-> sig.s, yParity |-> NormalizeV(HexValue(HexBody(sig.v)))]

\* index.ts, main: sig.r + sig.s.slice(2) + sig.v.slice(2)
FlatSignature(sig) == sig.r \o SliceFrom(sig.s, 2) \o SliceFrom(sig.v, 2)

\* Hex digits to bytes; an odd number of digits is padded on the left.
HexToBytes(d) ==
    LET e == IF Len(d) % 2 = 1 THEN <<0>> \o d ELSE d
    IN  [i \in 1..(Len(e) \div 2) |-> 16 * e[2 * i - 1] + e[2 * i]]

RECURSIVE BigEndian(_)
BigEndian(n) == IF n = 0 THEN <<>> ELSE Append(BigEndian(n \div 256), n % 256)

RlpString(b) ==
    IF Len(b) = 1 /\ b[1] < 128 THEN b
    ELSE IF Len(b) <= 55 THEN <<128 + Len(b)>> \o b
    ELSE <<183 + Len(BigEndian(Len(b)))>> \o BigEndian(Len(b)) \o b

RECURSIVE Concat(_)
Concat(ss) == IF ss = <<>> THEN <<>> ELSE Head(ss) \o Concat(Tail(ss))

RlpList(items) ==
    LET payload == Concat([i \in 1..Len(items) |-> RlpString(items[i])])
    IN  IF Len(payload) <= 55 THEN <<192 + Len(payload)>> \o payload
        ELSE <<247 + Len(BigEndian(Len(payload)))>> \o BigEndian(Len(payload))
                \o payload

\* A yParity item that is always one byte.
YParityItemOneByte(yParity) == <<yParity>>

\* The yParity item of the authorization: empty for 0, else its hex value.
YParityItem(yParity) == IF yParity = 0 THEN <<>> ELSE HexToBytes(HexDigitsOf(yParity))

\* SignedAuthorization: RLP of (chainId = empty, delegateAddress,
\* nonce = empty, yParity, r, s).
encodeSignedAuthorization(delegateAddress, compact) ==
    RlpList(<< <<>>,
               HexToBytes(HexBody(delegateAddress)),
               <<>>,
               YParityItem(compact.yParity),
               HexToBytes(HexBody(compact.r)),
               HexToBytes(HexBody(compact.s)) >>)

----------------------------------------------------------------------------
(* Authorization digest and signing hash list *)

\* viem hashAuthorization({contractAddress, chainId, nonce}): the hash of the
\* 0x05 magic and the RLP of (chainId, address, nonce), treated as injective.
hashAuthorization(contractAddress, chainId, nonce) ==
    <<[magic |-> "0x05", chainId |-> chainId, address |-> contractAddress,
       nonce |-> nonce]>>

\* A loop that swallows a digest's error and goes on to the next instruction.
RECURSIVE PushCompletionHashesSwallow(_, _, _)
PushCompletionHashesSwallow(hashes, list, delegateAddress) ==
    IF list = <<>> THEN [ok |-> TRUE, hashes |-> hashes]
    ELSE LET h == hashCompletionInstruction(Head(list), delegateAddress)
         IN  PushCompletionHashesSwallow(
                 IF h.ok THEN Append(hashes, h.digest) ELSE hashes,
                 Tail(list), delegateAddress)

\* for (const instruction of list) { hashes.push(await hash(instruction)) }:
\* the first digest that throws ends the loop and the call.
RECURSIVE PushCompletionHashes(_, _, _)
PushCompletionHashes(hashes, list, delegateAddress) ==
    IF list = <<>> THEN [ok |-> TRUE, hashes |-> hashes]
    ELSE LET h == hashCompletionInstruction(Head(list), delegateAddress)
         IN  IF h.ok
             THEN PushCompletionHashes(Append(hashes, h.digest), Tail(list),
                                       delegateAddress)
             ELSE [ok |-> FALSE, hashes |-> <<>>]

RECURSIVE PushEIP712Hashes(_, _, _, _)
PushEIP712Hashes(hashes, list, chainId, delegateAddress) ==
    IF list = <<>> THEN [ok |-> TRUE, hashes |-> hashes]
    ELSE LET h == prepareEIP712Hash(chainId, delegateAddress, Head(list))
         IN  IF h.ok
             THEN PushEIP712Hashes(Append(hashes, h.digest), Tail(list),
                                   chainId, delegateAddress)
             ELSE [ok |-> FALSE, hashes |-> <<>>]

\* The result of a createSigningHashList call: whether it returned, the
\* list, and the number of getDelegateAddress() calls it made.
Looked(r, n) == [ok |-> r.ok, hashes |-> r.hashes, lookups |-> n]

LookupThrew(n) == [ok |-> FALSE, hashes |-> <<>>, lookups |-> n]

\* A hash list with the instructions' digests before the completion
\* instructions' digests.
createSigningHashListInstructionsFirst(authHash, paymentResponse, answers) ==
    LET lookup == answers[1]
    IN  IF ~lookup.ok THEN LookupThrew(1)
        ELSE LET c == PushCompletionHashes(<<authHash>>,
                          paymentResponse.instructions, lookup.address)
             IN  IF ~c.ok THEN Looked(c, 1)
                 ELSE Looked(PushCompletionHashes(c.hashes,
                                 paymentResponse.completionInstructions,
                                 lookup.address), 1)

\* A hash list whose authorization digest comes last.
createSigningHashListAuthLast(authHash, paymentResponse, answers) ==
    LET lookup == answers[1]
    IN  IF ~lookup.ok THEN LookupThrew(1)
        ELSE LET c == PushCompletionHashes(<<>>,
                          paymentResponse.completionInstructions, lookup.address)
             IN  IF ~c.ok THEN Looked(c, 1)
                 ELSE LET d == PushCompletionHashes(c.hashes,
                                   paymentResponse.instructions, lookup.address)
                      IN  IF ~d.ok THEN Looked(d, 1)
                          ELSE [ok |-> TRUE, hashes |-> Append(d.hashes, authHash),
                                lookups |-> 1]

\* A hash list that looks the delegate address up again before its second
\* loop.
createSigningHashListLookupPerLoop(authHash, paymentResponse, answers) ==
    IF ~answers[1].ok THEN LookupThrew(1)
    ELSE LET c == PushCompletionHashes(<<authHash>>,
                      paymentResponse.completionInstructions, answers[1].address)
         IN  IF ~c.ok THEN Looked(c, 1)
             ELSE IF ~answers[2].ok THEN LookupThrew(2)
             ELSE Looked(PushCompletionHashes(c.hashes,
                             paymentResponse.instructions, answers[2].address), 2)

\* clients/OtimApiClient.ts, createSigningHashList.  answers are the outcomes
\* the remote gives to the successive getDelegateAddress() calls of this
\* call; the code makes one, before its loops.
createSigningHashList(authHash, paymentResponse, answers) ==
    LET lookup == answers[1]
    IN  IF ~lookup.ok THEN LookupThrew(1)
        ELSE LET c == PushCompletionHashes(<<authHash>>,
                          paymentResponse.completionInstructions, lookup.address)
             IN  IF ~c.ok THEN Looked(c, 1)
                 ELSE Looked(PushCompletionHashes(c.hashes,
                                 paymentResponse.instructions, lookup.address), 1)

\* index.ts, OtimApiClient.createSigningHashList.
createSigningHashListIndex(chainId, authHash, paymentResponse, answers) ==
    LET lookup == answers[1]
    IN  IF ~lookup.ok THEN LookupThrew(1)
        ELSE LET c == PushEIP712Hashes(<<authHash>>,
                          paymentResponse.completionInstructions, chainId,
                          lookup.address)
             IN  IF ~c.ok THEN Looked(c, 1)
                 ELSE Looked(PushEIP712Hashes(c.hashes,
                                 paymentResponse.instructions, chainId,
                                 lookup.address), 1)

\* Re-assembly of the signatures returned for a hash list: the first is the
\* authorization signature, the next ones go to completionInstructions, the
\* rest to instructions, each as the instruction's activationSignature.
attachSignatures(signatures, completionInstructions, instructions) ==
    LET n == Len(completionInstructions)
    IN  [ authorizationSignature |-> ToCompact(signatures[1]),
          completionInstructions |->
            [i \in 1..n |->
                [activationSignature |-> ToCompact(signatures[1 + i])]
                    @@ completionInstructions[i]],
          instructions |->
            [j \in 1..Len(instructions) |->
                [activationSignature |-> ToCompact(signatures[1 + n + j])]
                    @@ instructions[j]] ]

----------------------------------------------------------------------------
(* SpecAssemble: hash list assembly, signing and re-assembly *)

MaxInstr == 2

SeqsUpTo(S, n) == UNION {[1..k -> S] : k \in 0..n}

BaseFields ==
    [ token |-> AddrPattern(1), target |-> AddrPattern(7),
      threshold |-> UintPattern(3), endBalance |-> <<>>,
      feeToken |-> AddrPattern(1), maxBaseFeePerGas |-> <<>>,
      maxPriorityFeePerGas |-> <<1>>, executionFee |-> <<>>,
      salt |-> <<1>>, maxExecutions |-> <<1>>, action |-> AddrPattern(7),
      chainId |-> 8453, delegate |-> AddrPattern(4) ]

GoodInstructions == {BuildInstruction([BaseFields EXCEPT !.salt = sv]) : sv \in Salts}

\* An instruction whose arguments are the 0x marker alone: its digest throws.
BadInstruction == [BuildInstruction(BaseFields) EXCEPT !.arguments = Prefix0x]

InstrPool == GoodInstructions \cup {BadInstruction}

LookupFailed == [ok |-> FALSE, address |-> <<>>]
LookupOutcomes == {[ok |-> TRUE, address |-> d] : d \in DelegateAddrs} \cup {LookupFailed}

\* What the remote answers to a first and to a second delegate-address lookup.
AnswerSeqs == {<<a, b>> : a \in LookupOutcomes, b \in LookupOutcomes}

\* The addresses the first n lookups were answered with.
RECURSIVE AnsweredAddrs(_, _)
AnsweredAddrs(answers, n) ==
    IF n = 0 THEN <<>>
    ELSE LET before == AnsweredAddrs(answers, n - 1)
         IN  IF answers[n].ok THEN Append(before, answers[n].address) ELSE before

\* Recovery ids as the signer writes them: "00", "01", "1b", "1c".
VStrings == {<<0, 0>>, <<0, 1>>, <<1, 11>>, <<1, 12>>}

\* The signer's signature of one payload; it names the payload it signs.
SignerSig(payload, v) ==
    [r |-> [part |-> "r", of |-> payload], s |-> [part |-> "s", of |-> payload], v |-> v]

AssembleInit ==
    /\ aVariant \in {"clients", "index"}
    /\ aAuth \in { [ authHash |-> hashAuthorization(AddrPattern(4), c, 0),
                     chainId |-> c, answers |-> a ] :
                   c \in {8453}, a \in AnswerSeqs }
    /\ aResp \in [ completionInstructions : SeqsUpTo(InstrPool, MaxInstr),
                   instructions : SeqsUpTo(InstrPool, MaxInstr) ]
    /\ aOut = <<>>
    /\ aSigs = <<>>
    /\ aFinal = <<>>
    /\ apc = "ready"
    /\ DecodeIdle /\ SigIdle /\ RunIdle

Assemble ==
    /\ apc = "ready"
    /\ aOut' = IF aVariant = "clients"
               THEN createSigningHashList(aAuth.authHash, aResp, aAuth.answers)
               ELSE createSigningHashListIndex(aAuth.chainId, aAuth.authHash,
                                               aResp, aAuth.answers)
    /\ apc' = IF aOut'.ok THEN "assembled" ELSE "failed"
    /\ UNCHANGED <<aVariant, aAuth, aResp, aSigs, aFinal, notAssemble>>

\* The signer returns one signature per payload, in submitted order.
SignAll ==
    /\ apc = "assembled"
    /\ \E v \in VStrings :
          aSigs' = [k \in 1..Len(aOut.hashes) |-> SignerSig(aOut.hashes[k], v)]
    /\ apc' = "signed"
    /\ UNCHANGED <<aVariant, aAuth, aResp, aOut, aFinal, notAssemble>>

Reassemble ==
    /\ apc = "signed"
    /\ aFinal' = attachSignatures(aSigs, aResp.completionInstructions,
                                  aResp.instructions)
    /\ apc' = "final"
    /\ UNCHANGED <<aVariant, aAuth, aResp, aOut, aSigs, notAssemble>>

AssembleNext == Assemble \/ SignAll \/ Reassemble

SpecAssemble == AssembleInit /\ [][AssembleNext]_vars

\* The typed-data digest of one instruction in an assembly.
DigestIn(variant, auth, ins) ==
    IF variant = "clients"
    THEN hashCompletionInstruction(ins, auth.answers[1].address)
    ELSE prepareEIP712Hash(auth.chainId, auth.answers[1].address, ins)

AllDigestsOk ==
    /\ aAuth.answers[1].ok
    /\ \A i \in 1..Len(aResp.completionInstructions) :
          DigestIn(aVariant, aAuth, aResp.completionInstructions[i]).ok
    /\ \A j \in 1..Len(aResp.instructions) :
          DigestIn(aVariant, aAuth, aResp.instructions[j]).ok

\* C1: the hash list is the authorization digest, then the digests of the
\* completion instructions, then those of the instructions, each group in
\* input order; its length is 1 + n + m.
C1_HashListOrder ==
    (apc # "ready" /\ AllDigestsOk) =>
        LET n == Len(aResp.completionInstructions)
            m == Len(aResp.instructions)
        IN  /\ aOut.ok
            /\ Len(aOut.hashes) = 1 + n + m
            /\ aOut.hashes[1] = aAuth.authHash
            /\ \A i \in 1..n : aOut.hashes[1 + i] =
                  DigestIn(aVariant, aAuth, aResp.completionInstructions[i]).digest
            /\ \A j \in 1..m : aOut.hashes[1 + n + j] =
                  DigestIn(aVariant, aAuth, aResp.instructions[j]).digest

C1_Witness ==
    /\ apc = "assembled" /\ aVariant = "clients"
    /\ Len(aResp.completionInstructions) = 2
    /\ Len(aResp.instructions) = 1
    /\ aResp.completionInstructions[1] # aResp.completionInstructions[2]
    /\ aResp.instructions[1] # aResp.completionInstructions[2]
    /\ Len(aOut.hashes) = 4

WithoutSignature(ins) == [k \in DOMAIN ins \ {"activationSignature"} |-> ins[k]]

\* C4: signature 0 is the authorization signature, signature 1+i becomes the
\* activationSignature of completionInstructions[i], signature 1+n+j that of
\* instructions[j]; each instruction gets the signature made for its own
\* digest and nothing else gets one.
C4_SignaturesReattached ==
    apc = "final" =>
        LET n == Len(aResp.completionInstructions)
            m == Len(aResp.instructions)
        IN  /\ aFinal.authorizationSignature = ToCompact(aSigs[1])
            /\ aFinal.authorizationSignature.r.of = aAuth.authHash
            /\ Len(aFinal.completionInstructions) = n
            /\ Len(aFinal.instructions) = m
            /\ \A i \in 1..n :
                  LET out == aFinal.completionInstructions[i]
                      ins == aResp.completionInstructions[i]
                  IN  /\ out.activationSignature = ToCompact(aSigs[1 + i])
                      /\ out.activationSignature.r.of = DigestIn(aVariant, aAuth, ins).digest
                      /\ out.activationSignature.s.of = DigestIn(aVariant, aAuth, ins).digest
                      /\ WithoutSignature(out) = ins
            /\ \A j \in 1..m :
                  LET out == aFinal.instructions[j]
                      ins == aResp.instructions[j]
                  IN  /\ out.activationSignature = ToCompact(aSigs[1 + n + j])
                      /\ out.activationSignature.r.of = DigestIn(aVariant, aAuth, ins).digest
                      /\ out.activationSignature.s.of = DigestIn(aVariant, aAuth, ins).digest
                      /\ WithoutSignature(out) = ins

\* One completion instruction and no instruction: two hashes, one signature
\* attached.
C4_Witness ==
    /\ apc = "final"
    /\ Len(aResp.completionInstructions) = 1
    /\ Len(aResp.instructions) = 0
    /\ Len(aOut.hashes) = 2
    /\ "activationSignature" \in DOMAIN aFinal.completionInstructions[1]

\* C12: one call of createSigningHashList makes exactly one delegate-address
\* lookup, whatever the number of instructions (zero included), and every
\* typed-data digest of the returned list has the address of that lookup as
\* its verifyingContract.
C12_OneLookupPerCall ==
    apc # "ready" =>
        /\ aOut.lookups = 1
        /\ aOut.ok =>
              \A k \in 2..Len(aOut.hashes) :
                  aOut.hashes[k][1].verifyingContract = aAuth.answers[1].address

\* Two completion instructions and two instructions, and a remote that would
\* answer a second lookup with another address.
C12_Witness ==
    /\ apc = "assembled"
    /\ Len(aResp.completionInstructions) = 2
    /\ Len(aResp.instructions) = 2
    /\ aAuth.answers[1].ok /\ aAuth.answers[2].ok
    /\ aAuth.answers[1].address # aAuth.answers[2].address
    /\ Len(aOut.hashes) = 5

----------------------------------------------------------------------------
(* SpecSig: conversion of one raw signature *)

MaxV == 40

\* The signer writes v as two hex digits.
VString(v) == <<v \div 16, v % 16>>

WithMarker(marked, body) == IF marked THEN Prefix0x \o body ELSE body

RBodies == {PadLeft(<<1>>, 64), UintPattern(7)}
SBodies == {PadLeft(<<2>>, 64), UintPattern(3)}

SigInit ==
    /\ sRaw \in { [ r |-> WithMarker(pr, rb), s |-> WithMarker(ps, sb),
                    v |-> WithMarker(pv, VString(v)) ] :
                  pr \in BOOLEAN, ps \in BOOLEAN, pv \in BOOLEAN,
                  rb \in RBodies, sb \in SBodies, v \in 0..MaxV }
    /\ sDelegate \in DelegateAddrs
    /\ sFlat = <<>>
    /\ sCompact = <<>>
    /\ sAuth = <<>>
    /\ spc = "raw"
    /\ DecodeIdle /\ AssembleIdle /\ RunIdle

Flatten ==
    /\ spc = "raw"
    /\ sFlat' = FlatSignature(sRaw)
    /\ spc' = "flat"
    /\ UNCHANGED <<sRaw, sDelegate, sCompact, sAuth, notSig>>

Compact ==
    /\ spc = "flat"
    /\ sCompact' = ToCompact(sRaw)
    /\ spc' = "compact"
    /\ UNCHANGED <<sRaw, sDelegate, sFlat, sAuth, notSig>>

EncodeAuthorization ==
    /\ spc = "compact"
    /\ sAuth' = encodeSignedAuthorization(sDelegate, sCompact)
    /\ spc' = "encoded"
    /\ UNCHANGED <<sRaw, sDelegate, sFlat, sCompact, notSig>>

SigNext == Flatten \/ Compact \/ EncodeAuthorization

SpecSig == SigInit /\ [][SigNext]_vars

\* C5: the flat signature is r ++ s ++ v, all 32 bytes of r, all 32 bytes of
\* s and v as one byte in two hex digits (65 bytes), whether or not the
\* signer's strings carry a 0x marker.
C5_FlatIsRSV ==
    spc # "raw" =>
        /\ HexBody(sFlat) = HexBody(sRaw.r) \o HexBody(sRaw.s) \o HexBody(sRaw.v)
        /\ Len(HexBody(sFlat)) = 130

\* C6: the recovery-id normalization gives a yParity in {0, 1} for every v:
\* 0 and 27 give 0, 1 and 28 give 1, any other v gives 1 when even and 0
\* when odd.
C6_NormalizeTotal ==
    spc \in {"compact", "encoded"} =>
        LET v == HexValue(HexBody(sRaw.v))
            y == sCompact.yParity
        IN  /\ y \in {0, 1}
            /\ (v = 0 => y = 0) /\ (v = 1 => y = 1)
            /\ (v = 27 => y = 0) /\ (v = 28 => y = 1)
            /\ (v \notin {0, 1, 27, 28} => y = (IF v % 2 = 0 THEN 1 ELSE 0))

C6_Witness ==
    /\ spc = "compact"
    /\ HexValue(HexBody(sRaw.v)) = 36
    /\ sCompact.yParity = 1

\* C17: the fallback of the normalization agrees with EIP-155: for
\* v = 2c + 35 + p the result is p = (v - 35) mod 2, and for v in {27, 28}
\* it is v - 27.
C17_FallbackIsEip155 ==
    spc \in {"compact", "encoded"} =>
        LET v == HexValue(HexBody(sRaw.v))
            y == sCompact.yParity
        IN  /\ \A c \in 0..MaxV : \A p \in {0, 1} :
                  (v = 2 * c + 35 + p) => (y = p /\ y = (v - 35) % 2)
            /\ (v \in {27, 28} => y = v - 27)

C17_Witness ==
    /\ spc = "compact"
    /\ HexValue(HexBody(sRaw.v)) = 2 * 1 + 35 + 1
    /\ sCompact.yParity = 1

\* Reading an RLP list of strings back into its items.
RECURSIVE BigEndianValue(_)
BigEndianValue(b) ==
    IF b = <<>> THEN 0 ELSE 256 * BigEndianValue(SubSeq(b, 1, Len(b) - 1)) + b[Len(b)]

RECURSIVE RlpItems(_)
RlpItems(p) ==
    IF p = <<>> THEN <<>>
    ELSE IF p[1] < 128 THEN <<<<p[1]>>>> \o RlpItems(Tail(p))
    ELSE IF p[1] <= 183
         THEN LET n == p[1] - 128
              IN  <<SubSeq(p, 2, 1 + n)>> \o RlpItems(SubSeq(p, 2 + n, Len(p)))
    ELSE IF p[1] <= 191
         THEN LET ll == p[1] - 183
                  n == BigEndianValue(SubSeq(p, 2, 1 + ll))
              IN  <<SubSeq(p, 2 + ll, 1 + ll + n)>>
                      \o RlpItems(SubSeq(p, 2 + ll + n, Len(p)))
    ELSE <<<<-1>>>>

RlpDecodeList(b) ==
    IF b = <<>> \/ b[1] < 192 THEN <<<<-1>>>>
    ELSE IF b[1] <= 247
         THEN IF Len(b) = 1 + (b[1] - 192) THEN RlpItems(Tail(b)) ELSE <<<<-1>>>>
    ELSE LET ll == b[1] - 247
             n == BigEndianValue(SubSeq(b, 2, 1 + ll))
         IN  IF Len(b) = 1 + ll + n THEN RlpItems(SubSeq(b, 2 + ll, Len(b)))
             ELSE <<<<-1>>>>

\* C7: the SignedAuthorization is the RLP list of exactly six items
\* (chainId, delegateAddress, nonce, yParity, r, s): chainId and nonce are
\* the empty string, the yParity item is empty for 0 and the byte 0x01 for 1.
C7_AuthorizationRlp ==
    spc = "encoded" =>
        RlpDecodeList(sAuth) =
            << <<>>,
               HexToBytes(HexBody(sDelegate)),
               <<>>,
               IF sCompact.yParity = 0 THEN <<>> ELSE <<1>>,
               HexToBytes(HexBody(sCompact.r)),
               HexToBytes(HexBody(sCompact.s)) >>

C7_Witness ==
    /\ spc = "encoded"
    /\ sCompact.yParity = 0
    /\ Len(RlpDecodeList(sAuth)) = 6
    /\ RlpDecodeList(sAuth)[4] = <<>>

----------------------------------------------------------------------------
(* Spec: one run of main, in either version of the script *)

\* process.env.OTIM_CHAIN_ID
EnvChainId == 8453

\* An address as the payments API writes it: its digits and its letter case.
Wallets == {[body |-> AddrPattern(2), case |-> c] : c \in {"lower", "checksum"}}

\* viem getAddress: the EIP-55 checksum form of an address.
getAddress(a) == [a EXCEPT !.case = "checksum"]

Responses ==
    [ completionInstructions : SeqsUpTo(InstrPool, MaxInstr),
      instructions : SeqsUpTo(InstrPool, MaxInstr),
      ephemeralWalletAddress : Wallets ]

\* normalMaxPriorityFeeEstimate values the estimate endpoint may answer with.
GasEstimates == {0, 1000000}

\* What the signer answers for one payload.
RunRawSig(v) == [r |-> PadLeft(<<1>>, 64), s |-> PadLeft(<<2>>, 64), v |-> v]

NoHashList == [ok |-> FALSE, hashes |-> <<>>, lookups |-> 0]

Init ==
    /\ runVariant \in {"clients", "index"}
    /\ pc = "gas"
    /\ response = <<>>
    /\ mainDelegateAddress = <<>>
    /\ mainAuthHash = <<>>
    /\ lookups = <<>>
    /\ hashList = NoHashList
    /\ signWith = <<>>
    /\ mainSignatures = <<>>
    /\ calls = <<>>
    /\ outcomes = <<>>
    /\ exitCode = "running"
    /\ DecodeIdle /\ AssembleIdle /\ SigIdle

\* An external call that answered: the run goes on at the next step.
Answered(call, next) ==
    /\ calls' = Append(calls, call)
    /\ outcomes' = Append(outcomes, "ok")
    /\ pc' = next
    /\ UNCHANGED exitCode

\* A top level that logs the failure of a call and exits with status 0.
AbortExitZero(call) ==
    /\ calls' = Append(calls, call)
    /\ outcomes' = Append(outcomes, "failed")
    /\ pc' = "failed"
    /\ exitCode' = "0"

\* The call throws, the client logs and rethrows, and main ends in
\* catch (error) { console.error(...); process.exit(1) }
Abort(call) ==
    /\ calls' = Append(calls, call)
    /\ outcomes' = Append(outcomes, "failed")
    /\ pc' = "failed"
    /\ exitCode' = "1"

\* A computation between two calls throws: the same catch, no call made.
Throw(call) ==
    /\ calls' = Append(calls, call)
    /\ outcomes' = Append(outcomes, "ok")
    /\ pc' = "failed"
    /\ exitCode' = "1"

\* getOptimalGasFees: the request fails, or answers with an estimate; the
\* script in index.ts rejects an answer whose estimate is falsy.
GetOptimalGasFees ==
    /\ pc = "gas"
    /\ \/ /\ Abort("getOptimalGasFees")
       \/ \E estimate \in GasEstimates :
             IF runVariant = "index" /\ estimate = 0
             THEN Abort("getOptimalGasFees")
             ELSE Answered("getOptimalGasFees", "build")
    /\ UNCHANGED <<runVariant, response, mainDelegateAddress, mainAuthHash, lookups,
                   hashList, signWith, mainSignatures, notRun>>

BuildPaymentRequest ==
    /\ pc = "build"
    /\ \/ /\ Abort("buildPaymentRequest")
          /\ UNCHANGED response
       \/ /\ response' \in Responses
          /\ Answered("buildPaymentRequest", "delegate")
    /\ UNCHANGED <<runVariant, mainDelegateAddress, mainAuthHash, lookups, hashList,
                   signWith, mainSignatures, notRun>>

\* const delegateAddress = await getDelegateAddress(); then the EIP-7702
\* authorization hash over it, with nonce 0.
GetDelegateAddress ==
    /\ pc = "delegate"
    /\ \/ /\ Abort("getDelegateAddress")
          /\ UNCHANGED <<mainDelegateAddress, mainAuthHash, lookups>>
       \/ \E d \in DelegateAddrs :
             /\ mainDelegateAddress' = d
             /\ mainAuthHash' = hashAuthorization(d, EnvChainId, 0)
             /\ lookups' = Append(lookups, d)
             /\ Answered("getDelegateAddress", "hashes")
    /\ UNCHANGED <<runVariant, response, hashList, signWith, mainSignatures, notRun>>

\* const signingHashes = await createSigningHashList(authHash, response):
\* its own delegate-address lookup, then one digest per instruction.
CreateSigningHashList ==
    /\ pc = "hashes"
    /\ \E a \in AnswerSeqs :
          /\ hashList' = IF runVariant = "clients"
                         THEN createSigningHashList(mainAuthHash, response, a)
                         ELSE createSigningHashListIndex(EnvChainId, mainAuthHash,
                                                         response, a)
          /\ lookups' = lookups \o AnsweredAddrs(a, hashList'.lookups)
          /\ IF ~a[hashList'.lookups].ok THEN Abort("getDelegateAddress")
             ELSE IF hashList'.ok THEN Answered("getDelegateAddress", "sign")
             ELSE Throw("getDelegateAddress")
    /\ UNCHANGED <<runVariant, response, mainDelegateAddress, mainAuthHash, signWith,
                   mainSignatures, notRun>>

\* signRawPayloads: the clients version sends the checksum form of the wallet
\* address and returns the signer's (r, s, v) objects; the index.ts version
\* sends the address as received and flattens each signature.  The signer
\* may answer with fewer mainSignatures than payloads.
SignRawPayloads ==
    /\ pc = "sign"
    /\ signWith' = IF runVariant = "clients"
                   THEN getAddress(response.ephemeralWalletAddress)
                   ELSE response.ephemeralWalletAddress
    /\ \/ /\ Abort("signRawPayloads")
          /\ UNCHANGED mainSignatures
       \/ \E k \in 0..Len(hashList.hashes) : \E v \in VStrings :
             /\ mainSignatures' = [i \in 1..k |->
                                  IF runVariant = "clients" THEN RunRawSig(v)
                                  ELSE FlatSignature(RunRawSig(v))]
             /\ calls' = Append(calls, "signRawPayloads")
             /\ outcomes' = Append(outcomes, "ok")
             /\ pc' = "done"
             /\ exitCode' = "0"
    /\ UNCHANGED <<runVariant, response, mainDelegateAddress, mainAuthHash, lookups,
                   hashList, notRun>>

Next ==
    \/ GetOptimalGasFees
    \/ BuildPaymentRequest
    \/ GetDelegateAddress
    \/ CreateSigningHashList
    \/ SignRawPayloads

Spec == Init /\ [][Next]_vars

----------------------------------------------------------------------------
(* Claims about a run *)

SignerCalled == \E i \in 1..Len(calls) : calls[i] = "signRawPayloads"

Submitted == \E i \in 1..Len(calls) : calls[i] = "createPaymentRequest"

\* createSigningHashList was entered and its delegate-address lookup answered.
HashListLookedUp == Len(calls) >= 4 /\ Len(lookups) = 2

RunDigest(ins) ==
    IF runVariant = "clients"
    THEN hashCompletionInstruction(ins, lookups[2])
    ELSE prepareEIP712Hash(EnvChainId, lookups[2], ins)

RunDigestsOk ==
    /\ \A i \in 1..Len(response.completionInstructions) :
          RunDigest(response.completionInstructions[i]).ok
    /\ \A j \in 1..Len(response.instructions) :
          RunDigest(response.instructions[j]).ok

\* C9: the signer is called only after the digest of every completion
\* instruction and every instruction has been computed; when a digest
\* computation fails the signer is not called and the run ends failed.
C9_SignOnlyAfterAllDigests ==
    /\ SignerCalled =>
          /\ HashListLookedUp /\ RunDigestsOk /\ hashList.ok
          /\ Len(hashList.hashes) = 1 + Len(response.completionInstructions)
                                      + Len(response.instructions)
    /\ (HashListLookedUp /\ ~RunDigestsOk) =>
          /\ ~SignerCalled /\ pc = "failed" /\ exitCode = "1"

\* The second completion instruction's digest fails after the first was
\* computed.
C9_Witness ==
    /\ HashListLookedUp
    /\ Len(response.completionInstructions) = 2
    /\ RunDigest(response.completionInstructions[1]).ok
    /\ ~RunDigest(response.completionInstructions[2]).ok
    /\ pc = "failed" /\ ~SignerCalled

\* C10: a payment request is submitted only when the signer returned one
\* signature for every hash; when the signer's answer holds fewer signatures
\* than the hash list, nothing is submitted and the run fails.
C10_MissingSignatureFailsRun ==
    /\ Submitted => Len(mainSignatures) = Len(hashList.hashes)
    /\ (SignerCalled /\ Len(mainSignatures) < Len(hashList.hashes)) =>
          /\ ~Submitted /\ pc = "failed" /\ exitCode = "1"

\* The delegate address a signing hash was computed with: the contract
\* address of the authorization digest, the verifyingContract of a typed-data
\* digest.
DelegateOf(hash) == IF Len(hash) = 1 THEN hash[1].address ELSE hash[1].verifyingContract

\* C11: in one run the delegate address is looked up exactly once, and that
\* value is the contract address of the authorization digest and the
\* verifyingContract of every typed-data digest of the run.
C11_OneLookupPerRun ==
    hashList.ok =>
        /\ Len(lookups) = 1
        /\ \A k \in 1..Len(hashList.hashes) :
              DelegateOf(hashList.hashes[k]) = lookups[1]

\* C13: whenever payloads are submitted to the signer, the signing address
\* sent is the checksum form of the ephemeral wallet address.
C13_SignWithChecksummed ==
    SignerCalled =>
        /\ signWith = getAddress(response.ephemeralWalletAddress)
        /\ signWith.case = "checksum"

\* C15: the (chainId, address, nonce) tuple hashed into the authorization
\* digest is the tuple the SignedAuthorization encodes: the same delegate
\* address, nonce 0 and the chain id of the encoded tuple (empty, 0).
C15_AuthorizationTupleMatches ==
    mainAuthHash # <<>> =>
        LET t == mainAuthHash[1]
            items == RlpDecodeList(encodeSignedAuthorization(mainDelegateAddress,
                                       ToCompact(RunRawSig(<<1, 11>>))))
        IN  /\ BigEndian(t.chainId) = items[1]
            /\ HexToBytes(HexBody(t.address)) = items[2]
            /\ BigEndian(t.nonce) = items[3]

\* The external calls of a complete run, in order.
PipelineCalls ==
    <<"getOptimalGasFees", "buildPaymentRequest", "getDelegateAddress",
      "getDelegateAddress", "signRawPayloads">>

\* C14: a failed external call is the last call of the run (it is not made
\* again and no later call follows), the run then ends with exit status 1,
\* and a run ends with status 0 only after every call of the pipeline
\* answered.
C14_FailedCallAbortsRun ==
    /\ Len(outcomes) = Len(calls)
    /\ \A i \in 1..Len(outcomes) :
          outcomes[i] = "failed" =>
              /\ i = Len(outcomes)
              /\ pc = "failed"
              /\ exitCode = "1"
    /\ \A i \in 1..Len(calls) : calls[i] = PipelineCalls[i]
    /\ exitCode = "0" =>
          /\ calls = PipelineCalls
          /\ \A i \in 1..Len(outcomes) : outcomes[i] = "ok"

\* The build request fails after the gas fees were fetched.
C14_Witness ==
    /\ calls = <<"getOptimalGasFees", "buildPaymentRequest">>
    /\ outcomes = <<"ok", "failed">>
    /\ pc = "failed" /\ exitCode = "1"

====
